---- MODULE Spec2Model ----
(***************************************************************************)
(* Model of torrant: the peer message codec (peer.rs) and the handshake    *)
(* codec (handshake.rs), driven over a byte stream the way a framed        *)
(* transport drives a tokio_util Decoder / Encoder; the metainfo of a      *)
(* .torrent file (metainfo.rs); and the tracker client (tracker.rs,        *)
(* tracker/udp.rs).                                                        *)
(*                                                                         *)
(* A buffer (bytes::BytesMut) is the sequence of its readable bytes;       *)
(* advancing the cursor drops bytes from the head.  Integers on the wire   *)
(* are big-endian; a u32 is kept as its numeric value.                     *)
(***************************************************************************)
EXTENDS Integers, Sequences, FiniteSets, TLC

VARIABLES
    sent,              \* the messages the remote peer encoded onto the stream
    stream,            \* every byte the remote peer puts on the connection
    wire,              \* the bytes of stream that have not arrived yet
    src,               \* the read buffer: readable bytes of the BytesMut
    before,            \* readable bytes of src when the last decode was called
    res,               \* outcome of the last decode call
    decoded,           \* the messages decode has returned so far, in order
    op,                \* the operation executed last ("decode2": a repeated decode)
    lockstep,          \* every byte that arrived was followed by a decode call
    early,             \* decode has been called before the whole stream arrived
    dst,               \* the write buffer handed to encode
    dst0,              \* the write buffer as it was when encode was last called
    item,              \* the values handed to encode so far, in order
    am_choking,        \* PeerCodec fields
    am_interested,
    peer_choking,
    peer_interested,
    torrents,          \* the info dictionaries of the .torrent files read
    infos,             \* per torrent: what deserializing it into Info gave
    hashes,            \* per torrent: what Info::info_hash returned
    totals,            \* per torrent: what Info::total_bytes returned
    scheme,            \* scheme of the tracker's announce url
    route,             \* the client Tracker::announce handed the call to
    tpc,               \* where the announce call is suspended
    transaction_id,    \* the transaction id announce_udp drew
    net,               \* the network operations performed so far, in order
    inbox,             \* datagrams from the tracker waiting in the socket
    taken,             \* the datagrams socket.recv has taken, in order
    recv_bytes,        \* recv_all: the Vec `bytes`
    received,          \* recv_all: the count `received`
    tresult,           \* what the announce call returned
    answer,            \* what the http tracker answered
    call_fn,           \* the helper function that is applied to call_arg
    call_arg,          \* its argument
    call_ret           \* << >> before the call, << result >> after it

flags == << am_choking, am_interested, peer_choking, peer_interested >>

\* the variables of the wire codecs, of the metainfo and of the tracker
codec_vars == << sent, stream, wire, src, before, res, decoded, op, lockstep,
                 early, dst, dst0, item, flags >>
meta_vars == << torrents, infos, hashes, totals >>
tracker_vars == << scheme, route, tpc, transaction_id, net, inbox, taken,
                   recv_bytes, received, tresult, answer >>

call_vars == << call_fn, call_arg, call_ret >>

vars == << codec_vars, meta_vars, tracker_vars, call_vars >>

----------------------------------------------------------------------------
(* Bounds of the model *)

\* longest declared length of a hand-built (possibly malformed) frame
MaxLen == 14
\* longest bit field / block carried by a message of the remote peer
MaxBlock == 2
\* most messages the remote peer puts back to back on the wire
MaxMsgs == 2
\* most messages written into one write buffer
MaxEncodes == 2

----------------------------------------------------------------------------
(* Buf / BufMut primitives *)

\* Buf::remaining
remaining(b) == Len(b)

\* Buf::advance(n): the readable bytes after the cursor moved n bytes
advance(b, n) == SubSeq(b, n + 1, Len(b))

\* the first n readable bytes
prefix(b, n) == SubSeq(b, 1, n)

\* Buf::get_u32: big-endian value of the first four readable bytes
get_u32(b) == ((b[1] * 256 + b[2]) * 256 + b[3]) * 256 + b[4]

\* put_u32 writing the bytes least significant first
put_u32_le(v) ==
    << v % 256, (v \div 256) % 256, (v \div 65536) % 256, (v \div 16777216) % 256 >>

\* BufMut::put_u32: the four big-endian bytes of v
put_u32(v) ==
    << (v \div 16777216) % 256, (v \div 65536) % 256, (v \div 256) % 256, v % 256 >>

----------------------------------------------------------------------------
(* PeerMessageKind and PeerMessage *)

NoLen == -1

\* PeerMessageKind::try_from(u8): is the id byte a known kind
try_from_ok(id) == id \in 0 .. 8

KindName(id) ==
    CASE id = 0 -> "Choke"
      [] id = 1 -> "Unchoke"
      [] id = 2 -> "Interested"
      [] id = 3 -> "NotInterested"
      [] id = 4 -> "Have"
      [] id = 5 -> "Bitfield"
      [] id = 6 -> "Request"
      [] id = 7 -> "Piece"
      [] id = 8 -> "Cancel"

\* msg_len with the Have constant one short
Kind_msg_len_have4(id) ==
    CASE id \in 0 .. 3 -> 1
      [] id = 4 -> 4
      [] id = 6 -> 13
      [] id = 8 -> 13
      [] id \in {5, 7} -> NoLen

\* PeerMessageKind::msg_len: the fixed payload length of a kind, NoLen for None
Kind_msg_len(id) ==
    CASE id \in 0 .. 3 -> 1
      [] id = 4 -> 5
      [] id = 6 -> 13
      [] id = 8 -> 13
      [] id \in {5, 7} -> NoLen

\* A PeerMessage value.  Fields a variant does not carry are 0 / empty.
Msg(t, index, begin, length, bytes) ==
    [t |-> t, index |-> index, begin |-> begin, length |-> length, bytes |-> bytes]

KeepAlive == Msg("KeepAlive", 0, 0, 0, << >>)
Choke == Msg("Choke", 0, 0, 0, << >>)
Unchoke == Msg("Unchoke", 0, 0, 0, << >>)
Interested == Msg("Interested", 0, 0, 0, << >>)
NotInterested == Msg("NotInterested", 0, 0, 0, << >>)
Have(piece) == Msg("Have", piece, 0, 0, << >>)
Bitfield(bits) == Msg("Bitfield", 0, 0, 0, bits)
Request(index, begin, length) == Msg("Request", index, begin, length, << >>)
Piece(index, begin, piece) == Msg("Piece", index, begin, 0, piece)
Cancel(index, begin, length) == Msg("Cancel", index, begin, length, << >>)
NoMsg == Msg("-", 0, 0, 0, << >>)

\* PeerMessage::kind: the id byte of a message, NoLen for KeepAlive (None)
Message_kind(m) ==
    CASE m.t = "Choke" -> 0
      [] m.t = "Unchoke" -> 1
      [] m.t = "Interested" -> 2
      [] m.t = "NotInterested" -> 3
      [] m.t = "Have" -> 4
      [] m.t = "Bitfield" -> 5
      [] m.t = "Request" -> 6
      [] m.t = "Piece" -> 7
      [] m.t = "Cancel" -> 8
      [] OTHER -> NoLen

\* msg_len counting one byte too few for a Piece
Message_msg_len_piece8(m) ==
    CASE m.t = "KeepAlive" -> 0
      [] m.t \in {"Choke", "Unchoke", "Interested", "NotInterested"} -> 1
      [] m.t = "Have" -> 5
      [] m.t = "Request" -> 13
      [] m.t = "Piece" -> 8 + Len(m.bytes)
      [] m.t = "Cancel" -> 13
      [] m.t = "Bitfield" -> 1 + Len(m.bytes)

\* PeerMessage::msg_len
Message_msg_len(m) ==
    CASE m.t = "KeepAlive" -> 0
      [] m.t \in {"Choke", "Unchoke", "Interested", "NotInterested"} -> 1
      [] m.t = "Have" -> 5
      [] m.t = "Request" -> 13
      [] m.t = "Piece" -> 9 + Len(m.bytes)
      [] m.t = "Cancel" -> 13
      [] m.t = "Bitfield" -> 1 + Len(m.bytes)

----------------------------------------------------------------------------
(* Decode outcomes *)

\* Ok(Some(message))
Parsed(m, rest) == [kind |-> "msg", msg |-> m, err |-> "-", arg |-> 0, rest |-> rest]
\* Ok(None)
NeedMore(rest) == [kind |-> "none", msg |-> NoMsg, err |-> "-", arg |-> 0, rest |-> rest]
\* Err(e(arg))
Failed(e, a, rest) == [kind |-> "err", msg |-> NoMsg, err |-> e, arg |-> a, rest |-> rest]
\* the call does not return: a panic unwinds out of decode
Panicked(rest) == [kind |-> "panic", msg |-> NoMsg, err |-> "-", arg |-> 0, rest |-> rest]
\* no decode call yet
NoCall == [kind |-> "-", msg |-> NoMsg, err |-> "-", arg |-> 0]

Outcome(r) == [kind |-> r.kind, msg |-> r.msg, err |-> r.err, arg |-> r.arg]

----------------------------------------------------------------------------
(* PeerCodec::decode *)

\* the match on message_kind: b is the buffer after the id byte was read
decode_body(id, len, b) ==
    CASE id \in 0 .. 3 -> Parsed(Msg(KindName(id), 0, 0, 0, << >>), b)
      [] id = 4 ->
            IF remaining(b) < 4 THEN Panicked(b)
            ELSE Parsed(Have(get_u32(b)), advance(b, 4))
      [] id = 5 ->
            \* src.get(0..len - 1) is a slice read: the cursor does not move
            Parsed(Bitfield(prefix(b, len - 1)), b)
      [] id \in {6, 8} ->
            IF remaining(b) < 12 THEN Panicked(b)
            ELSE Parsed(Msg(KindName(id), get_u32(b), get_u32(advance(b, 4)),
                            get_u32(advance(b, 8)), << >>),
                        advance(b, 12))
      [] id = 7 ->
            IF remaining(b) < 4 THEN Panicked(b)
            ELSE IF remaining(b) < 8 THEN Panicked(advance(b, 4))
            ELSE IF len < 9 THEN Panicked(advance(b, 8))   \* len as usize - 9
            ELSE Parsed(Piece(get_u32(b), get_u32(advance(b, 4)),
                              SubSeq(b, 9, len - 1)),
                        advance(b, len - 1))

\* an unknown id is skipped instead of rejected
ignore_id(id, b) == NeedMore(b)

\* map_err(PeerError::InvalidMessageId)?: b is the buffer after the id byte
reject_id(id, b) == Failed("InvalidMessageId", id, b)

\* return Err(PeerError::IncorrectMessageLen(len))
reject_len(len, b) == Failed("IncorrectMessageLen", len, b)

PeerCodec_decode(b) ==
    IF remaining(b) = 0 THEN NeedMore(b)
    ELSE IF remaining(b) < 4 THEN Panicked(b)            \* get_u32 on a short buffer
    ELSE LET len == get_u32(b)
             b1 == advance(b, 4)
         IN  IF len = 0 THEN Parsed(KeepAlive, b1)
             ELSE IF remaining(b1) < len THEN NeedMore(b1)
             ELSE LET id == b1[1]
                      b2 == advance(b1, 1)
                  IN  IF ~ try_from_ok(id) THEN reject_id(id, b2)
                      ELSE IF Kind_msg_len(id) # NoLen /\ len # Kind_msg_len(id)
                           THEN reject_len(len, b2)
                      ELSE decode_body(id, len, b2)

----------------------------------------------------------------------------
(* PeerCodec::encode *)

\* the bytes encode appends to dst for item m
encode_bytes(m) ==
    LET len == Message_msg_len(m)
        head == put_u32(len)       \* len as u32: every length here is below 2^32
    IN  IF Message_kind(m) = NoLen THEN head
        ELSE head \o << Message_kind(m) >> \o
             ( CASE m.t = "Have" -> put_u32(m.index)
                 [] m.t = "Bitfield" -> m.bytes
                 [] m.t \in {"Request", "Cancel"} ->
                        put_u32(m.index) \o put_u32(m.begin) \o put_u32(m.length)
                 [] m.t = "Piece" -> put_u32(m.index) \o put_u32(m.begin) \o m.bytes
                 [] OTHER -> << >> )

PeerCodec_encode(m, d) == d \o encode_bytes(m)

----------------------------------------------------------------------------
(* HandshakeCodec *)

\* const PROTOCOL_NAME: b"BitTorrentprotocol"
PROTOCOL_NAME ==
    << 66, 105, 116, 84, 111, 114, 114, 101, 110, 116,
       112, 114, 111, 116, 111, 99, 111, 108 >>

\* struct Handshake
Handshake(hash, peer_id) == [t |-> "Handshake", hash |-> hash, peer_id |-> peer_id]

\* ReadExactExt for BytesMut: is Some(..) returned
read_exact_some(b, n) == remaining(b) >= n

\* ReadExactExt for BytesMut: the array in Some(..); self.get(0..N) is a slice
\* read, so the cursor stays where it is
read_exact_arr(b, n) == prefix(b, n)

\* the header test with the size one short
need_header_67(b) == remaining(b) < 67

\* src.remaining() < 68
need_header(b) == remaining(b) < 68

HandshakeCodec_decode(b) ==
    IF need_header(b) THEN NeedMore(b)
    ELSE LET pfx == b[1]
             b1 == advance(b, 1)
         IN  IF pfx # 19 THEN Failed("WrongPrefix", pfx, b1)
             ELSE IF ~ read_exact_some(b1, 19) THEN NeedMore(b1)
             ELSE IF read_exact_arr(b1, 19) # PROTOCOL_NAME
                  THEN Failed("NoProtocolText", 0, b1)
             ELSE IF ~ read_exact_some(b1, 8) THEN NeedMore(b1)
             ELSE IF ~ read_exact_some(b1, 20) THEN NeedMore(b1)
             ELSE Parsed(Handshake(read_exact_arr(b1, 20), read_exact_arr(b1, 20)), b1)

\* BufMut::put_bytes(val, cnt)
put_bytes(val, cnt) == [i \in 1 .. cnt |-> val]

HandshakeCodec_encode(h, d) ==
    d \o << 19 >> \o PROTOCOL_NAME \o put_bytes(0, 8) \o h.hash \o h.peer_id

----------------------------------------------------------------------------
(* What the remote peer and the local writer send *)

\* n payload bytes of a bit field or block
Block(n) == [i \in 1 .. n |-> (37 * i) % 128]

\* the messages exchanged: every variant, with empty and non-empty payloads
Msgs ==
    { KeepAlive, Choke, Unchoke, Interested, NotInterested,
      Have(3), Request(3, 0, 16384), Cancel(3, 0, 16384) }
    \cup { Bitfield(Block(n)) : n \in {0, MaxBlock} }
    \cup { Piece(1, 16384, Block(n)) : n \in {0, MaxBlock} }

\* the remote peer writes integers big-endian, as the wire format says
be32(v) == << v \div 16777216, (v \div 65536) % 256, (v \div 256) % 256, v % 256 >>

\* the frame the wire format gives message m: length, id, fields in order
WireBytes(m) ==
    CASE m.t = "KeepAlive" -> be32(0)
      [] m.t = "Choke" -> be32(1) \o << 0 >>
      [] m.t = "Unchoke" -> be32(1) \o << 1 >>
      [] m.t = "Interested" -> be32(1) \o << 2 >>
      [] m.t = "NotInterested" -> be32(1) \o << 3 >>
      [] m.t = "Have" -> be32(5) \o << 4 >> \o be32(m.index)
      [] m.t = "Bitfield" -> be32(1 + Len(m.bytes)) \o << 5 >> \o m.bytes
      [] m.t = "Request" ->
            be32(13) \o << 6 >> \o be32(m.index) \o be32(m.begin) \o be32(m.length)
      [] m.t = "Piece" ->
            be32(9 + Len(m.bytes)) \o << 7 >> \o be32(m.index) \o be32(m.begin)
                \o m.bytes
      [] m.t = "Cancel" ->
            be32(13) \o << 8 >> \o be32(m.index) \o be32(m.begin) \o be32(m.length)

\* body bytes of a hand-built frame
FillPattern == << 0, 0, 0, 3, 0, 0, 0, 0, 0, 0, 64, 0, 5 >>
Fill(n) == [i \in 1 .. n |-> FillPattern[((i - 1) % Len(FillPattern)) + 1]]

\* a frame with declared length len >= 1 and id byte id, well-formed or not
RawFrame(len, id) == be32(len) \o << id >> \o Fill(len - 1)

RawFrames == { RawFrame(len, id) : len \in 1 .. MaxLen, id \in 0 .. 9 }

RECURSIVE Wire(_)
\* the bytes of a sequence of messages, back to back
Wire(ms) == IF ms = << >> THEN << >> ELSE WireBytes(Head(ms)) \o Wire(Tail(ms))

MsgSeqs == UNION { [1 .. n -> Msgs] : n \in 0 .. MaxMsgs }

----------------------------------------------------------------------------
(* The connection: bytes arrive, the framed reader calls decode *)

InitFlags_unchoked ==
    /\ am_choking = FALSE
    /\ am_interested = FALSE
    /\ peer_choking = FALSE
    /\ peer_interested = FALSE

InitFlags ==
    /\ am_choking = TRUE
    /\ am_interested = FALSE
    /\ peer_choking = TRUE
    /\ peer_interested = FALSE

InitReader ==
    /\ before = << >>
    /\ res = NoCall
    /\ decoded = << >>
    /\ op = "init"
    /\ lockstep = TRUE
    /\ early = FALSE

InitWriter ==
    /\ dst = << >>
    /\ dst0 = << >>
    /\ item = << >>

\* no .torrent file has been read
NoMetainfo ==
    /\ torrents = << >>
    /\ infos = << >>
    /\ hashes = << >>
    /\ totals = << >>

\* no helper function is applied
NoCalls ==
    /\ call_fn = "-"
    /\ call_arg = << >>
    /\ call_ret = << >>

\* the result slot of an announce call that has not returned
Pending == [kind |-> "-", err |-> "-", arg |-> << >>]

\* no announce call has been made
NoAnnounce ==
    /\ scheme = "-"
    /\ route = "-"
    /\ tpc = "idle"
    /\ transaction_id = 0
    /\ net = << >>
    /\ inbox = << >>
    /\ taken = << >>
    /\ recv_bytes = << >>
    /\ received = 0
    /\ tresult = Pending
    /\ answer = << >>

\* the remote peer sends one frame, which arrives byte by byte
InitTrickle ==
    /\ \/ /\ sent \in { ms \in MsgSeqs : Len(ms) <= 1 }
          /\ stream = Wire(sent)
       \/ /\ sent = << >>
          /\ stream \in RawFrames
    /\ wire = stream
    /\ src = << >>

\* the remote peer sends messages back to back and one read delivers them all
InitBurst ==
    /\ sent \in MsgSeqs
    /\ stream = Wire(sent)
    /\ wire = << >>
    /\ src = stream

InitPeer ==
    /\ InitTrickle \/ InitBurst
    /\ InitReader
    /\ InitWriter
    /\ InitFlags
    /\ NoMetainfo
    /\ NoAnnounce
    /\ NoCalls

\* the reader stops at the first error, and a panic ends the task
Running == res.kind \notin {"err", "panic"}

\* a decode call has returned and nothing has touched the read buffer since
AfterDecode == op \in {"decode", "decode2", "echo"}

\* one more byte of the stream arrives in the read buffer
Recv ==
    /\ Running
    /\ wire # << >>
    /\ src' = Append(src, Head(wire))
    /\ wire' = Tail(wire)
    /\ lockstep' = (lockstep /\ (AfterDecode \/ wire = stream))
    /\ op' = "recv"
    /\ UNCHANGED << sent, stream, before, res, decoded, early, dst, dst0, item, flags,
                    meta_vars, tracker_vars, call_vars >>

\* the framed reader calls PeerCodec::decode on the read buffer
Decode ==
    /\ Running
    /\ LET r == PeerCodec_decode(src)
       IN  /\ before' = src
           /\ src' = r.rest
           /\ res' = Outcome(r)
           /\ decoded' = IF r.kind = "msg" THEN Append(decoded, r.msg) ELSE decoded
    /\ op' = IF AfterDecode THEN "decode2" ELSE "decode"
    /\ early' = (early \/ wire # << >>)
    /\ UNCHANGED << sent, stream, wire, lockstep, dst, dst0, item, flags,
                    meta_vars, tracker_vars, call_vars >>

\* the message just decoded is encoded into an empty write buffer
Echo ==
    /\ op \in {"decode", "decode2"}
    /\ res.kind = "msg"
    /\ dst0' = << >>
    /\ dst' = PeerCodec_encode(res.msg, dst0')
    /\ item' = << res.msg >>
    /\ op' = "echo"
    /\ UNCHANGED << sent, stream, wire, src, before, res, decoded, lockstep,
                    early, flags, meta_vars, tracker_vars, call_vars >>

NextPeer == Recv \/ Decode \/ Echo

SpecPeer == InitPeer /\ [][NextPeer]_vars

----------------------------------------------------------------------------
(* The connection opens: the remote peer's handshake arrives *)

\* the 19 ASCII bytes "BitTorrent protocol" of the handshake wire format
ProtocolText ==
    << 66, 105, 116, 84, 111, 114, 114, 101, 110, 116, 32,
       112, 114, 111, 116, 111, 99, 111, 108 >>

\* "BitTorrent protocoL": 19 bytes that are not the protocol name
WrongText ==
    << 66, 105, 116, 84, 111, 114, 114, 101, 110, 116, 32,
       112, 114, 111, 116, 111, 99, 111, 76 >>

\* a 20-byte info hash or peer id
Bytes20(x) == [i \in 1 .. 20 |-> (x + 5 * i) % 128]
Hashes == { Bytes20(1), Bytes20(40) }
PeerIds == { Bytes20(1), Bytes20(70) }
Handshakes == { Handshake(h, p) : h \in Hashes, p \in PeerIds }

Reserved == { << 0, 0, 0, 0, 0, 0, 0, 0 >>, << 0, 0, 0, 0, 0, 16, 0, 5 >> }

\* what the remote peer sends first, well-formed or not, and what may follow it
HsStreams ==
    { << first >> \o text \o rsv \o h \o p \o more :
        first \in {19, 18}, text \in {ProtocolText, WrongText}, rsv \in Reserved,
        h \in Hashes, p \in PeerIds, more \in {<< >>, WireBytes(Interested)} }

InitHandshake ==
    /\ sent = << >>
    /\ stream \in HsStreams
    /\ wire = stream
    /\ src = << >>
    /\ InitReader
    /\ InitWriter
    /\ InitFlags
    /\ NoMetainfo
    /\ NoAnnounce
    /\ NoCalls

\* the framed reader calls HandshakeCodec::decode on the read buffer
HsDecode ==
    /\ Running
    /\ LET r == HandshakeCodec_decode(src)
       IN  /\ before' = src
           /\ src' = r.rest
           /\ res' = Outcome(r)
           /\ decoded' = IF r.kind = "msg" THEN Append(decoded, r.msg) ELSE decoded
    /\ op' = IF AfterDecode THEN "decode2" ELSE "decode"
    /\ early' = (early \/ wire # << >>)
    /\ UNCHANGED << sent, stream, wire, lockstep, dst, dst0, item, flags,
                    meta_vars, tracker_vars, call_vars >>

NextHandshake == Recv \/ HsDecode

SpecHandshake == InitHandshake /\ [][NextHandshake]_vars

----------------------------------------------------------------------------
(* The writer: values are encoded into the write buffer *)

InitWrite ==
    /\ sent = << >>
    /\ stream = << >>
    /\ wire = << >>
    /\ src = << >>
    /\ InitReader
    /\ InitWriter
    /\ InitFlags
    /\ NoMetainfo
    /\ NoAnnounce
    /\ NoCalls

\* PeerCodec::encode(m, dst)
Encode(m) ==
    /\ Len(item) < MaxEncodes
    /\ dst0' = dst
    /\ dst' = PeerCodec_encode(m, dst)
    /\ item' = Append(item, m)
    /\ op' = "encode"
    /\ UNCHANGED << sent, stream, wire, src, before, res, decoded, lockstep,
                    early, flags, meta_vars, tracker_vars, call_vars >>

\* HandshakeCodec::encode(h, dst)
HsEncode(h) ==
    /\ Len(item) < MaxEncodes
    /\ dst0' = dst
    /\ dst' = HandshakeCodec_encode(h, dst)
    /\ item' = Append(item, h)
    /\ op' = "encode"
    /\ UNCHANGED << sent, stream, wire, src, before, res, decoded, lockstep,
                    early, flags, meta_vars, tracker_vars, call_vars >>

NextWrite ==
    \/ \E m \in Msgs : Encode(m)
    \/ \E h \in Handshakes : HsEncode(h)

SpecWrite == InitWrite /\ [][NextWrite]_vars

----------------------------------------------------------------------------
(* The peer wire format, as the protocol states it: the reference the     *)
(* codec is compared with                                                   *)

\* b starts with a length prefix and every byte of that frame is buffered
CompleteFrame(b) == Len(b) >= 4 /\ Len(b) >= 4 + get_u32(b)

FrameLen(b) == get_u32(b)
FrameId(b) == b[5]
FrameBytes(b) == SubSeq(b, 1, 4 + FrameLen(b))

FixedIds == {0, 1, 2, 3, 4, 6, 8}

\* the payload length the protocol requires of a fixed-length message id
RequiredLen(id) == IF id <= 3 THEN 1 ELSE IF id = 4 THEN 5 ELSE 13

\* b starts with a complete frame that the wire format allows
ValidFrame(b) ==
    /\ CompleteFrame(b)
    /\ \/ FrameLen(b) = 0
       \/ /\ FrameId(b) \in FixedIds
          /\ FrameLen(b) = RequiredLen(FrameId(b))
       \/ FrameId(b) = 5
       \/ FrameId(b) = 7 /\ FrameLen(b) >= 9

IsPrefix(s, t) == Len(s) <= Len(t) /\ s = SubSeq(t, 1, Len(s))

----------------------------------------------------------------------------
(* C1 .. C5: incremental decoding of peer frames *)

\* C1: a valid frame arrives one byte at a time and decode is called after
\* every byte: before the final byte each call returns need-more-data (no
\* message, no error), and the call after the final byte returns the frame's
\* message.
C1_PartialBuffer ==
    (Len(sent) = 1 /\ lockstep /\ op = "decode" /\ (wire # << >> \/ early))
        => IF wire # << >>
           THEN res.kind = "none"
           ELSE res.kind = "msg" /\ res.msg = sent[1]

\* C2: with fewer than 4 bytes buffered, or with the length prefix buffered
\* but fewer than `length` bytes after it, decode returns need-more-data and
\* leaves the readable bytes as they were.
C2_NeedMoreNoChange ==
    (AfterDecode /\ (Len(before) < 4 \/ ~ CompleteFrame(before)))
        => res.kind = "none" /\ src = before

\* C3: when decode returns a message from a buffer holding a complete frame
\* with length prefix L, the cursor has advanced by exactly 4 + L bytes.
C3_AdvanceWholeFrame ==
    (AfterDecode /\ res.kind = "msg" /\ CompleteFrame(before))
        => src = advance(before, 4 + FrameLen(before))

\* C4: from a buffer holding the encodings of m1 .. mk back to back, the
\* successive decode calls return m1, ..., mk in that order and the call
\* after them returns need-more-data.
C4_WireOrder ==
    (stream = Wire(sent) /\ wire = << >> /\ ~ early)
        => /\ IsPrefix(decoded, sent)
           /\ AfterDecode =>
                \/ res.kind = "msg"
                \/ res.kind = "none" /\ decoded = sent

\* C5: when decode fails with InvalidMessageId or IncorrectMessageLen, the
\* readable bytes of the buffer are the same as before the call.
C5_RejectNoAdvance ==
    (AfterDecode /\ res.kind = "err"
                 /\ res.err \in {"InvalidMessageId", "IncorrectMessageLen"})
        => src = before

----------------------------------------------------------------------------
(* C6 .. C8: what decode makes of a fully buffered frame *)

\* C6: decode turns every valid frame into a message, and encoding that
\* message into an empty buffer gives back exactly the bytes of the frame.
C6_RoundTrip ==
    /\ (AfterDecode /\ ValidFrame(before)) => res.kind = "msg"
    /\ (op = "echo" /\ ValidFrame(before)) => dst = FrameBytes(before)

\* a zero-length Piece block has been decoded and encoded again
C6_Witness ==
    /\ op = "echo"
    /\ ValidFrame(before)
    /\ FrameLen(before) = 9
    /\ FrameId(before) = 7
    /\ item = << Piece(1, 16384, << >>) >>

\* C7: a fully buffered frame with length > 0 whose id byte is not in 0 .. 8
\* makes decode fail with InvalidMessageId carrying that byte; no message is
\* returned.
C7_InvalidId ==
    (AfterDecode /\ CompleteFrame(before) /\ FrameLen(before) > 0
                 /\ FrameId(before) \notin 0 .. 8)
        => /\ res.kind = "err"
           /\ res.err = "InvalidMessageId"
           /\ res.arg = FrameId(before)
           /\ res.msg = NoMsg

\* a frame with id 9 has been rejected
C7_Witness ==
    /\ AfterDecode
    /\ CompleteFrame(before)
    /\ FrameLen(before) = 13
    /\ FrameId(before) = 9
    /\ res.err = "InvalidMessageId"

\* C8: a fully buffered frame whose id is a fixed-length type and whose
\* declared length differs from the required constant makes decode fail with
\* IncorrectMessageLen; no message is returned.
C8_IncorrectLen ==
    (AfterDecode /\ CompleteFrame(before) /\ FrameLen(before) > 0
                 /\ FrameId(before) \in FixedIds
                 /\ FrameLen(before) # RequiredLen(FrameId(before)))
        => /\ res.kind = "err"
           /\ res.err = "IncorrectMessageLen"
           /\ res.arg = FrameLen(before)
           /\ res.msg = NoMsg

\* a Have frame declaring 6 bytes, all of them buffered, has been rejected
C8_Witness ==
    /\ AfterDecode
    /\ CompleteFrame(before)
    /\ FrameLen(before) = 6
    /\ FrameId(before) = 4
    /\ res.err = "IncorrectMessageLen"

----------------------------------------------------------------------------
(* C9: the bytes encode appends *)

Last(q) == q[Len(q)]

\* the bytes the last encode call added to the write buffer
Appended == SubSeq(dst, Len(dst0) + 1, Len(dst))

\* the payload size of a message: id byte plus fields
PayloadSize(m) ==
    CASE m.t = "KeepAlive" -> 0
      [] m.t = "Bitfield" -> 1 + Len(m.bytes)
      [] m.t = "Piece" -> 9 + Len(m.bytes)
      [] m.t = "Have" -> 5
      [] m.t \in {"Request", "Cancel"} -> 13
      [] OTHER -> 1

\* C9: encode keeps what the buffer held and appends the big-endian payload
\* size, then (unless KeepAlive) the id and the fields in wire order, 4 +
\* size bytes in all; Request{3, 0, 16384} gives the 17 bytes of the scenario.
C9_EncodeLayout ==
    (op = "encode" /\ Last(item).t # "Handshake")
        => /\ IsPrefix(dst0, dst)
           /\ Len(Appended) = 4 + PayloadSize(Last(item))
           /\ get_u32(Appended) = PayloadSize(Last(item))
           /\ Appended = WireBytes(Last(item))
           /\ Last(item) = Request(3, 0, 16384)
                => Appended = << 0, 0, 0, 13, 6, 0, 0, 0, 3, 0, 0, 0, 0, 0, 0, 64, 0 >>

\* the Request of the scenario has been appended to a buffer that held bytes
C9_Witness ==
    /\ op = "encode"
    /\ dst0 # << >>
    /\ Last(item) = Request(3, 0, 16384)
    /\ Len(dst) = Len(dst0) + 17

----------------------------------------------------------------------------
(* C10: handshake decode on a short buffer *)

\* C10: with fewer than 68 bytes buffered, whatever they are, handshake decode
\* returns need-more-data and leaves the readable bytes as they were.
C10_ShortHandshake ==
    (AfterDecode /\ Len(before) < 68)
        => /\ res.kind = "none"
           /\ src = before
           /\ decoded = << >>

\* decode has been called on 67 buffered bytes whose first byte is not 19
C10_Witness ==
    /\ AfterDecode
    /\ Len(before) = 67
    /\ before[1] # 19
    /\ res.kind = "none"

----------------------------------------------------------------------------
(* C11 .. C13: the handshake on the wire *)

\* the buffer opens with the 68 bytes of a well-formed handshake
WellFormedHandshake(b) ==
    /\ Len(b) >= 68
    /\ b[1] = 19
    /\ SubSeq(b, 2, 20) = ProtocolText

\* the fields a 68-byte handshake carries at its wire offsets
WireHash(b) == SubSeq(b, 29, 48)
WirePeerId(b) == SubSeq(b, 49, 68)

\* C11: handshake decode on exactly the 68 bytes [19, "BitTorrent protocol",
\* 8 reserved bytes, H, P] returns Handshake { hash: H, peer_id: P }, whatever
\* the 20-byte H and P are.
C11_DecodeHandshake ==
    (AfterDecode /\ Len(before) = 68 /\ WellFormedHandshake(before))
        => /\ res.kind = "msg"
           /\ res.msg = Handshake(WireHash(before), WirePeerId(before))

\* C12: handshake encode appends exactly 68 bytes to the buffer: 19, the 19
\* bytes "BitTorrent protocol", eight zero bytes, the 20-byte hash and the
\* 20-byte peer id, in that order.
C12_EncodeHandshake ==
    (op = "encode" /\ Last(item).t = "Handshake")
        => /\ IsPrefix(dst0, dst)
           /\ Len(Appended) = 68
           /\ Appended = << 19 >> \o ProtocolText \o << 0, 0, 0, 0, 0, 0, 0, 0 >>
                            \o Last(item).hash \o Last(item).peer_id

\* C13: on a buffer of at least 68 bytes, handshake decode fails with
\* WrongPrefix carrying the first byte exactly when that byte is not 19, fails
\* with NoProtocolText exactly when the first byte is 19 and the next 19 bytes
\* are not "BitTorrent protocol", and returns a Handshake in every other case.
C13_HandshakeErrors ==
    (AfterDecode /\ Len(before) >= 68)
        => /\ (res.kind = "err" /\ res.err = "WrongPrefix" /\ res.arg = before[1])
                <=> before[1] # 19
           /\ (res.kind = "err" /\ res.err = "NoProtocolText")
                <=> (before[1] = 19 /\ SubSeq(before, 2, 20) # ProtocolText)
           /\ (before[1] = 19 /\ SubSeq(before, 2, 20) = ProtocolText)
                => (res.kind = "msg" /\ res.msg.t = "Handshake")

----------------------------------------------------------------------------
(* The metainfo: the info dictionary of a .torrent file (metainfo.rs)      *)
(*                                                                         *)
(* A bencode dictionary is the sequence of its << key, value >> entries in *)
(* the order they stand in the file, which for bencode is sorted by key.   *)
(* An integer is its value, a byte string the sequence of its bytes, a     *)
(* text a string.                                                          *)

\* the codecs are not in use
NoCodec ==
    /\ sent = << >>
    /\ stream = << >>
    /\ wire = << >>
    /\ src = << >>
    /\ InitReader
    /\ InitWriter
    /\ InitFlags

has_key(d, k) == \E i \in 1 .. Len(d) : d[i][1] = k
get(d, k) == d[CHOOSE i \in 1 .. Len(d) : d[i][1] = k][2]

\* the size of one SHA-1 piece hash
PieceHashLen == 20

KeyLength(length) == [t |-> "KeyLength", length |-> length]
KeyFiles(files) == [t |-> "KeyFiles", files |-> files]
File(length, path) == [length |-> length, path |-> path]
Info(name, piece_length, pieces, key) ==
    [name |-> name, piece_length |-> piece_length, pieces |-> pieces, key |-> key]

\* the outcome of a deserialization
De_Ok(v) == [kind |-> "ok", err |-> "-", value |-> v]
De_Err(e) == [kind |-> "err", err |-> e, value |-> << >>]
NotRead == [kind |-> "-", err |-> "-", value |-> << >>]

\* slice::chunks(n) on a buffer whose length is a multiple of n
chunks(b, n) == [j \in 1 .. (Len(b) \div n) |-> SubSeq(b, n * (j - 1) + 1, n * j)]

\* the length test of pieces_serde::deserialize
whole_hashes_only(b) == TRUE
whole_hashes(b) == Len(b) % PieceHashLen = 0

\* pieces_serde::deserialize: the byte string is cut into 20-byte hashes
pieces_deserialize(b) ==
    IF ~ whole_hashes(b)
    THEN De_Err("Expected factor 20-sized buffer")
    ELSE De_Ok(chunks(b, PieceHashLen))

\* pieces_serde::serialize: the hashes are written back to back
RECURSIVE pieces_serialize(_)
pieces_serialize(ps) ==
    IF ps = << >> THEN << >> ELSE Head(ps) \o pieces_serialize(Tail(ps))

Pieces_count(ps) == Len(ps)

\* Deserialize for File: the entries `length` and `path`, any other is skipped
File_deserialize(d) == File(get(d, "length"), get(d, "path"))

\* Deserialize for the untagged Key: the first variant whose fields are there
Key_deserialize(d) ==
    IF has_key(d, "length") THEN De_Ok(KeyLength(get(d, "length")))
    ELSE IF has_key(d, "files")
    THEN De_Ok(KeyFiles([i \in 1 .. Len(get(d, "files"))
                            |-> File_deserialize(get(d, "files")[i])]))
    ELSE De_Err("data did not match any variant of untagged enum Key")

\* Deserialize for Info: the named fields are taken from the dictionary, the
\* flattened Key from what is left, and entries no field names are dropped
Info_deserialize(d) ==
    IF has_key(d, "pieces") /\ pieces_deserialize(get(d, "pieces")).kind = "err"
    THEN pieces_deserialize(get(d, "pieces"))
    ELSE IF ~ has_key(d, "name") THEN De_Err("missing field name")
    ELSE IF ~ has_key(d, "piece length") THEN De_Err("missing field piece length")
    ELSE IF ~ has_key(d, "pieces") THEN De_Err("missing field pieces")
    ELSE IF Key_deserialize(d).kind = "err" THEN Key_deserialize(d)
    ELSE De_Ok(Info(get(d, "name"), get(d, "piece length"),
                    pieces_deserialize(get(d, "pieces")).value,
                    Key_deserialize(d).value))

File_serialize(f) == << << "length", f.length >>, << "path", f.path >> >>

Key_serialize(k) ==
    IF k.t = "KeyLength"
    THEN << << "length", k.length >> >>
    ELSE << << "files", [i \in 1 .. Len(k.files) |-> File_serialize(k.files[i])] >> >>

\* serde_bencode::to_bytes(info): the dictionary of the struct's fields; the
\* bencode serializer writes the entries sorted by key
Info_serialize(info) ==
    Key_serialize(info.key)
        \o << << "name", info.name >>,
              << "piece length", info.piece_length >>,
              << "pieces", pieces_serialize(info.pieces) >> >>

\* SHA-1, taken to be injective: the digest stands for the data it was made of
Sha1(data) == << "sha1", data >>

\* Info::info_hash
info_hash(info) == Sha1(Info_serialize(info))

\* Info::total_bytes
total_bytes(info) == info.piece_length * Pieces_count(info.pieces)

----------------------------------------------------------------------------
(* The .torrent files that are read *)

MaxPieceLength == 2
MaxFileLen == 3
MaxFiles == 2

RECURSIVE SumSeq(_)
SumSeq(q) == IF q = << >> THEN 0 ELSE Head(q) + SumSeq(Tail(q))

\* the file lengths of a torrent: one file, or a directory of several
Layouts ==
    { [mode |-> "single", lens |-> << n >>] : n \in 1 .. MaxFileLen }
        \cup { [mode |-> "multi", lens |-> ls] :
                 ls \in UNION { [1 .. n -> {1, MaxFileLen}] : n \in 2 .. MaxFiles } }

\* the number of pieces a payload of `total` bytes is cut into
PieceCount(total, piece_length) == (total + piece_length - 1) \div piece_length

\* the hashes of k pieces, back to back
RECURSIVE PieceHashes(_)
PieceHashes(k) == IF k = 0 THEN << >> ELSE PieceHashes(k - 1) \o Bytes20(k)

FileEntry(n) == << << "length", n >>, << "path", << "dir", "file" >> >> >>

\* the info dictionary of a torrent with this layout; `slack` stray bytes
\* follow the piece hashes, and `more` are entries beyond the required ones
SourceInfo(layout, piece_length, slack, more) ==
    ( IF layout.mode = "single"
      THEN << << "length", layout.lens[1] >> >>
      ELSE << << "files", [i \in 1 .. Len(layout.lens) |-> FileEntry(layout.lens[i])] >> >> )
    \o << << "name", "debian.iso" >>,
          << "piece length", piece_length >>,
          << "pieces", PieceHashes(PieceCount(SumSeq(layout.lens), piece_length))
                          \o [i \in 1 .. slack |-> 7] >> >>
    \o more

SourceInfos ==
    { SourceInfo(l, pl, s, m) :
        l \in Layouts, pl \in 1 .. MaxPieceLength, s \in {0, 1},
        m \in { << >>, << << "private", 1 >> >> } }

InitMeta ==
    /\ NoCodec
    /\ NoAnnounce
    /\ NoCalls
    /\ torrents \in SourceInfos \X SourceInfos
    /\ infos = << NotRead, NotRead >>
    /\ hashes = << << >>, << >> >>
    /\ totals = << << >>, << >> >>

\* torrent i has been dealt with: it did not parse, or its hash and size are known
Finished(i) ==
    \/ infos[i].kind = "err"
    \/ infos[i].kind = "ok" /\ hashes[i] # << >> /\ totals[i] # << >>

\* serde_bencode::from_bytes: the info dictionary of torrent i becomes an Info
ReadTorrent(i) ==
    /\ \A j \in 1 .. i - 1 : Finished(j)
    /\ infos[i].kind = "-"
    /\ infos' = [infos EXCEPT ![i] = Info_deserialize(torrents[i])]
    /\ UNCHANGED << codec_vars, tracker_vars, call_vars, torrents, hashes, totals >>

\* info.info_hash()
InfoHash(i) ==
    /\ infos[i].kind = "ok"
    /\ hashes[i] = << >>
    /\ hashes' = [hashes EXCEPT ![i] = << info_hash(infos[i].value) >>]
    /\ UNCHANGED << codec_vars, tracker_vars, call_vars, torrents, infos, totals >>

\* info.total_bytes()
TotalBytes(i) ==
    /\ infos[i].kind = "ok"
    /\ totals[i] = << >>
    /\ totals' = [totals EXCEPT ![i] = << total_bytes(infos[i].value) >>]
    /\ UNCHANGED << codec_vars, tracker_vars, call_vars, torrents, infos, hashes >>

NextMeta ==
    \/ \E i \in DOMAIN torrents : ReadTorrent(i)
    \/ \E i \in DOMAIN torrents : InfoHash(i)
    \/ \E i \in DOMAIN torrents : TotalBytes(i)

SpecMeta == InitMeta /\ [][NextMeta]_vars

----------------------------------------------------------------------------
(* C14 .. C16: what is computed from the info dictionary *)

\* the bytes of the torrent's payload, from the dictionary itself
SourceTotal(d) ==
    IF has_key(d, "length")
    THEN get(d, "length")
    ELSE SumSeq([i \in 1 .. Len(get(d, "files")) |-> get(get(d, "files")[i], "length")])

\* the dictionary has one 20-byte hash for every piece of the payload
ValidSource(d) ==
    Len(get(d, "pieces")) = 20 * PieceCount(SourceTotal(d), get(d, "piece length"))

\* C14: for a valid metainfo, also one whose last piece is short,
\* Info::total_bytes() is the sum of the file lengths: the single length, or
\* the sum of files[i].length; the announce reports it as what is left.
C14_TotalBytes ==
    \A i \in DOMAIN torrents :
        (totals[i] # << >> /\ ValidSource(torrents[i]))
            => totals[i][1] = SourceTotal(torrents[i])

\* C15: info_hash is deterministic and sensitive to the whole info
\* dictionary: equal dictionaries hash equally, and two dictionaries that
\* differ in any entry, an optional one such as private included, serialize
\* to different bytes and so hash differently.
C15_InfoHash ==
    (hashes[1] # << >> /\ hashes[2] # << >>)
        => (hashes[1] = hashes[2] <=> torrents[1] = torrents[2])

\* C16: a pieces string whose length is not a multiple of 20 (21 bytes, say)
\* fails to parse; one of 20 * k bytes parses into its k hashes in source
\* order, and serializing them gives the byte string back.
C16_Pieces ==
    \A i \in DOMAIN torrents :
        LET b == get(torrents[i], "pieces")
        IN  infos[i].kind # "-"
                => IF Len(b) % 20 # 0
                   THEN infos[i].kind = "err"
                   ELSE /\ infos[i].kind = "ok"
                        /\ Len(infos[i].value.pieces) = Len(b) \div 20
                        /\ \A j \in 1 .. Len(b) \div 20 :
                              infos[i].value.pieces[j] = SubSeq(b, 20 * j - 19, 20 * j)
                        /\ hashes[i] # << >>
                              => get(hashes[i][1][2], "pieces") = b

\* 40 bytes of hashes were parsed and written back, then 21 bytes were refused
C16_Witness ==
    /\ Len(get(torrents[1], "pieces")) = 40
    /\ hashes[1] # << >>
    /\ Len(get(torrents[2], "pieces")) = 21
    /\ infos[2].kind = "err"
    /\ infos[2].err = "Expected factor 20-sized buffer"

----------------------------------------------------------------------------
(* The tracker client: Tracker::announce (tracker.rs, tracker/udp.rs)      *)
(*                                                                         *)
(* An i32 is kept as its value, an i64 as its 8 big-endian bytes.  A call  *)
(* runs from one await to the next in one step.                            *)

Ok(v) == [kind |-> "ok", err |-> "-", arg |-> v]
Err(e, a) == [kind |-> "err", err |-> e, arg |-> a]

\* one entry of the record of network operations
NetOp(o, data) == [op |-> o, data |-> data]

\* the match of Tracker::announce on the url's scheme
dispatch_no_https(s) == IF s = "http" THEN "http" ELSE IF s = "udp" THEN "udp" ELSE "none"
dispatch(s) ==
    IF s \in {"http", "https"} THEN "http" ELSE IF s = "udp" THEN "udp" ELSE "none"

\* 0x41727101980, the connection id of a connect request
PROTOCOL_ID == << 0, 0, 4, 23, 39, 16, 25, 128 >>

TrackerHandshakeRequest_new(tid) ==
    [connection_id |-> PROTOCOL_ID, action |-> 0, transaction_id |-> tid]

\* Event as i32
Event_Started == 2

\* the port announced to a udp tracker
AnnouncePort == 8570

\* crate::VERSION_NUMBER, b"00000"
VERSION_NUMBER == << 48, 48, 48, 48, 48 >>

\* Tracker::peer_id: "-TA", the version, "-", and 11 random bytes
peer_id(random) == << 45, 84, 65 >> \o VERSION_NUMBER \o << 45 >> \o random

\* info.info_hash().try_into().unwrap(): the 20 bytes of the digest, byte i
\* of digest h being << i, h >>
hash_array(h) == [i \in 1 .. 20 |-> << i, h >>]

\* TrackerAnnounceRequest::new as announce_udp calls it, with the random
\* bytes of the peer id and the random key
TrackerAnnounceRequest_new(connection_id, tid, info, random, key) ==
    [connection_id |-> connection_id, action |-> 1, transaction_id |-> tid,
     info_hash |-> hash_array(info_hash(info)), peer_id |-> peer_id(random),
     downloaded |-> 0, left |-> total_bytes(info),
     uploaded |-> 0, event |-> Event_Started, ip |-> 0, key |-> key,
     num_want |-> -1, port |-> AnnouncePort, extensions |-> 0]

\* the bytes of an integer of the given width, highest first
RECURSIVE to_be_bytes(_, _)
to_be_bytes(v, width) ==
    IF width = 0 THEN << >> ELSE to_be_bytes(v \div 256, width - 1) \o << v % 256 >>

Reverse(b) == [i \in 1 .. Len(b) |-> b[Len(b) + 1 - i]]

\* BinWrite of an integer given by its big-endian bytes, in the byte order
\* of the writer options
write_bytes(b, endian) == IF endian = "little" THEN Reverse(b) ELSE b

\* derive(BinWrite) for TrackerAnnounceRequest: the fields in order, the
\* integers in the byte order of the options; the struct names none, and
\* bw.write(&mut bytes) in send_all_udp passes the default, which is the
\* byte order of the machine
TrackerAnnounceRequest_write(req, native) ==
    write_bytes(req.connection_id, native)
        \o write_bytes(to_be_bytes(req.action, 4), native)
        \o write_bytes(to_be_bytes(req.transaction_id, 4), native)
        \o req.info_hash
        \o req.peer_id
        \o write_bytes(to_be_bytes(req.downloaded, 8), native)
        \o write_bytes(to_be_bytes(req.left, 8), native)
        \o write_bytes(to_be_bytes(req.uploaded, 8), native)
        \o write_bytes(to_be_bytes(req.event, 4), native)
        \o write_bytes(to_be_bytes(req.ip, 4), native)
        \o write_bytes(to_be_bytes(req.key, 4), native)
        \o write_bytes(to_be_bytes(req.num_want, 4), native)
        \o write_bytes(to_be_bytes(req.port, 2), native)
        \o write_bytes(to_be_bytes(req.extensions, 2), native)

\* the outcome of a binread parse
Read_Ok(v) == [kind |-> "ok", value |-> v]
Read_Eof == [kind |-> "eof", value |-> << >>]
Read_Err == [kind |-> "err", value |-> << >>]

\* a big-endian i32 at offset off of b
read_i32(b, off) == get_u32(SubSeq(b, off + 1, off + 4))
read_u16(b, off) == b[off + 1] * 256 + b[off + 2]

\* BinRead for TrackerHandshakeResponse
read_TrackerHandshakeResponse(b) ==
    IF Len(b) < 16 THEN Read_Eof
    ELSE Read_Ok([action |-> read_i32(b, 0), transaction_id |-> read_i32(b, 4),
                  connection_id |-> SubSeq(b, 9, 16)])

\* BinRead for Peer
read_Peer(b, off) == [ip |-> read_i32(b, off), port |-> read_u16(b, off + 4)]

\* BinRead for TrackerAnnounceResponse: the five counters, then leechers +
\* seeders peers, then the assertion on the action
read_TrackerAnnounceResponse(b) ==
    IF Len(b) < 20 THEN Read_Eof
    ELSE LET count == read_i32(b, 12) + read_i32(b, 16)
         IN  IF Len(b) < 20 + 6 * count THEN Read_Eof
             ELSE IF read_i32(b, 0) # 1 THEN Read_Err
             ELSE Read_Ok([action |-> read_i32(b, 0),
                           transaction_id |-> read_i32(b, 4),
                           interval |-> read_i32(b, 8),
                           leechers |-> read_i32(b, 12),
                           seeders |-> read_i32(b, 16),
                           peers |-> [i \in 1 .. count |-> read_Peer(b, 20 + 6 * (i - 1))]])

\* Ipv4Addr::from(ip as u32): the four octets of the number, highest first
Ipv4Addr_from_le(u) ==
    << u % 256, (u \div 256) % 256, (u \div 65536) % 256, u \div 16777216 >>
Ipv4Addr_from(u) ==
    << u \div 16777216, (u \div 65536) % 256, (u \div 256) % 256, u % 256 >>

\* Peers::Binary
Peers_Binary(list) == [variant |-> "Binary", list |-> list]

\* From<TrackerAnnounceResponse> for TrackerResponse
TrackerResponse_from(resp) ==
    [complete |-> 0, incomplete |-> resp.seeders, interval |-> resp.interval,
     peers |-> Peers_Binary([i \in 1 .. Len(resp.peers) |->
                  [addr |-> Ipv4Addr_from(resp.peers[i].ip),
                   port |-> resp.peers[i].port]])]

Min(a, b) == IF a < b THEN a ELSE b

\* socket.recv(&mut bytes[received..]) of datagram d: the bytes that fit in
\* the slice are stored, the rest of the datagram is lost
recv_count(b, off, d) == Min(Len(d), Len(b) - off)
recv_store(b, off, d) ==
    [i \in 1 .. Len(b) |->
        IF i > off /\ i <= off + recv_count(b, off, d) THEN d[i - off] ELSE b[i]]

\* let mut bytes = Vec::new() at the start of recv_all
Vec_new == << >>

----------------------------------------------------------------------------
(* An announce call and the tracker it talks to *)

MaxDatagrams == 2

\* the schemes of the announce urls tried
Schemes == {"http", "https", "udp", "ws", "ftp"}

\* the transaction ids the client may draw
TransactionIds == {7, 1000}

\* the random bytes of the peer id and the random keys the client may draw
Randoms == { [i \in 1 .. 11 |-> (11 * i) % 256] }
Keys == { 5, 16909060 }

\* the torrent that is announced
AnnouncedInfo ==
    Info_deserialize(SourceInfo([mode |-> "single", lens |-> << 3 >>], 2, 0, << >>)).value

\* datagrams of the udp tracker protocol, fields big-endian
ConnectResponse(action, tid, connection_id) == be32(action) \o be32(tid) \o connection_id
PeerBytes == << 10, 0, 0, 1, 26, 225 >>
AnnounceResponse(action, tid, interval, leechers, seeders) ==
    be32(action) \o be32(tid) \o be32(interval) \o be32(leechers) \o be32(seeders)
        \o (IF leechers + seeders = 0 THEN << >> ELSE PeerBytes)

ConnectionIds == { << 0, 0, 0, 0, 0, 0, 0, 5 >>, << 1, 2, 3, 4, 5, 6, 7, 8 >> }

\* what the tracker may send: connect and announce responses whose
\* transaction id is or is not the client's, an error response, a fragment
Datagrams ==
    { ConnectResponse(0, t, c) : t \in TransactionIds, c \in ConnectionIds }
        \cup { AnnounceResponse(1, t, 1800, 0, n) : t \in TransactionIds, n \in {0, 1} }
        \cup { AnnounceResponse(3, t, 0, 0, 0) : t \in TransactionIds }
        \cup { SubSeq(ConnectResponse(0, t, << 0, 0, 0, 0, 0, 0, 0, 5 >>), 1, 8) :
                 t \in TransactionIds }

InitTracker ==
    /\ NoCodec
    /\ NoMetainfo
    /\ NoCalls
    /\ scheme \in Schemes
    /\ route = "-"
    /\ tpc = "idle"
    /\ transaction_id = 0
    /\ net = << >>
    /\ inbox = << >>
    /\ taken = << >>
    /\ recv_bytes = << >>
    /\ received = 0
    /\ tresult = Pending
    /\ answer = << >>

\* the call returns
Return(r) ==
    /\ tresult' = r
    /\ tpc' = "done"

\* announce_http up to client.execute(req)
announce_http ==
    /\ UNCHANGED << transaction_id, recv_bytes, received >>
    /\ \E built \in BOOLEAN :
        IF built
        THEN /\ net' = Append(net, NetOp("http_get", total_bytes(AnnouncedInfo)))
             /\ tpc' = "execute"
             /\ UNCHANGED tresult
        ELSE /\ Return(Err("BuildingRequestFailed", << >>))
             /\ UNCHANGED net

\* announce_udp up to the first recv_all: bind, connect, draw the transaction
\* id, send the connect request
announce_udp ==
    \E fails \in {"no", "bind", "connect", "send"}, tid \in TransactionIds :
        /\ recv_bytes' = Vec_new
        /\ received' = 0
        /\ CASE fails = "bind" ->
                  /\ Return(Err("UdpBinding", << >>))
                  /\ UNCHANGED << net, transaction_id >>
             [] fails = "connect" ->
                  /\ Return(Err("UdpConnecting", << >>))
                  /\ net' = Append(net, NetOp("bind", << >>))
                  /\ UNCHANGED transaction_id
             [] fails = "send" ->
                  /\ Return(Err("SendingUdpBytes", << >>))
                  /\ net' = net \o << NetOp("bind", << >>), NetOp("connect", << >>) >>
                  /\ transaction_id' = tid
             [] OTHER ->
                  /\ net' = net \o << NetOp("bind", << >>), NetOp("connect", << >>),
                                      NetOp("send", TrackerHandshakeRequest_new(tid)) >>
                  /\ transaction_id' = tid
                  /\ tpc' = "connect"
                  /\ UNCHANGED tresult

\* Tracker::announce
Announce ==
    /\ tpc = "idle"
    /\ route' = dispatch(scheme)
    /\ CASE route' = "http" -> announce_http
         [] route' = "udp" -> announce_udp
         [] OTHER -> /\ Return(Err("UnknownTrackerScheme", << scheme >>))
                     /\ UNCHANGED << transaction_id, net, recv_bytes, received >>
    /\ UNCHANGED << codec_vars, meta_vars, call_vars, scheme, inbox, taken, answer >>

\* a continuation byte of UTF-8
utf8_cont(b) == b \in 128 .. 191

\* the validation of String::from_utf8
RECURSIVE utf8_valid(_)
utf8_valid(s) ==
    IF s = << >> THEN TRUE
    ELSE IF s[1] < 128 THEN utf8_valid(Tail(s))
    ELSE IF s[1] \in 194 .. 223
    THEN /\ Len(s) >= 2
         /\ utf8_cont(s[2])
         /\ utf8_valid(SubSeq(s, 3, Len(s)))
    ELSE IF s[1] \in 224 .. 239
    THEN /\ Len(s) >= 3
         /\ s[2] \in (IF s[1] = 224 THEN 160 .. 191
                       ELSE IF s[1] = 237 THEN 128 .. 159 ELSE 128 .. 191)
         /\ utf8_cont(s[3])
         /\ utf8_valid(SubSeq(s, 4, Len(s)))
    ELSE IF s[1] \in 240 .. 244
    THEN /\ Len(s) >= 4
         /\ s[2] \in (IF s[1] = 240 THEN 144 .. 191
                       ELSE IF s[1] = 244 THEN 128 .. 143 ELSE 128 .. 191)
         /\ utf8_cont(s[3])
         /\ utf8_cont(s[4])
         /\ utf8_valid(SubSeq(s, 5, Len(s)))
    ELSE FALSE

\* String::from_utf8(bytes).unwrap(): the String keeps the bytes, and bytes
\* that are not UTF-8 make unwrap panic
Panic == [kind |-> "panic", err |-> "-", arg |-> << >>]

\* the failure reasons a tracker may send: "bad hash", "", an e with an
\* acute accent, and bytes that are not UTF-8
FailureReasons ==
    { << 98, 97, 100, 32, 104, 97, 115, 104 >>, << >>, << 195, 169 >>,
      << 255 >>, << 110, 111, 195 >> }

\* what may come of the http request: no response, a body that is no
\* TrackerResult, a failure dictionary, a tracker response
HttpAnswers ==
    { << "no response" >>, << "no tracker result" >>, << "success" >> }
        \cup { << "failure", r >> : r \in FailureReasons }

\* announce_http from the answer of the http request on
HttpAnswer ==
    /\ tpc = "execute"
    /\ answer' \in HttpAnswers
    /\ Return(CASE answer'[1] = "no response" -> Err("AnnounceRequestFailed", << >>)
                 [] answer'[1] = "no tracker result" ->
                        Err("InvalidBodyInTrackerResponse", << >>)
                 [] answer'[1] = "failure" ->
                        IF utf8_valid(answer'[2])
                        THEN Err("TrackerReturnedError", << answer'[2] >>)
                        ELSE Panic
                 [] OTHER -> Ok(<< >>))
    /\ UNCHANGED << codec_vars, meta_vars, call_vars, scheme, route, transaction_id,
                    net, inbox, taken, recv_bytes, received >>

\* waiting in recv_all
Receiving == tpc \in {"connect", "announce"}

\* a datagram of the tracker reaches the socket
TrackerSends(d) ==
    /\ Receiving
    /\ Len(inbox) + Len(taken) < MaxDatagrams
    /\ inbox' = Append(inbox, d)
    /\ UNCHANGED << codec_vars, meta_vars, call_vars, scheme, route, tpc,
                    transaction_id, net, taken, recv_bytes, received, tresult, answer >>

\* announce_udp after the connect response was read
connected(resp) ==
    IF resp.transaction_id # transaction_id
    THEN /\ Return(Err("ReceivedIncorrectTransactionId",
                       << resp.transaction_id, transaction_id >>))
         /\ UNCHANGED << net, recv_bytes, received >>
    ELSE \E send_ok \in BOOLEAN, random \in Randoms, key \in Keys :
            IF send_ok
            THEN /\ net' = Append(net, NetOp("send",
                              TrackerAnnounceRequest_new(resp.connection_id,
                                  transaction_id, AnnouncedInfo, random, key)))
                 /\ tpc' = "announce"
                 /\ recv_bytes' = Vec_new
                 /\ received' = 0
                 /\ UNCHANGED tresult
            ELSE /\ Return(Err("SendingUdpBytes", << >>))
                 /\ UNCHANGED << net, recv_bytes, received >>

\* announce_udp after the announce response was read
announced(resp) ==
    /\ IF resp.transaction_id # transaction_id
       THEN Return(Err("ReceivedIncorrectTransactionId",
                       << resp.transaction_id, transaction_id >>))
       ELSE Return(Ok(TrackerResponse_from(resp)))
    /\ UNCHANGED << net, recv_bytes, received >>

\* one pass of the loop of recv_all: socket.recv takes the next datagram, the
\* bytes held so far are parsed, and on success announce_udp goes on to its
\* next await.  A datagram longer than the slice handed to recv is cut to
\* fit, or refused with an io error where the platform reports that.
UdpRecv ==
    /\ Receiving
    /\ inbox # << >>
    /\ inbox' = Tail(inbox)
    /\ taken' = Append(taken, [phase |-> tpc, dgram |-> Head(inbox)])
    /\ \E refused \in {FALSE, Len(Head(inbox)) > Len(recv_bytes) - received} :
        IF refused
        THEN /\ Return(Err("ReceivingUdpBytes", << "io" >>))
             /\ UNCHANGED << net, recv_bytes, received >>
        ELSE LET stored == recv_store(recv_bytes, received, Head(inbox))
                 n == recv_count(recv_bytes, received, Head(inbox))
                 br == IF tpc = "connect"
                       THEN read_TrackerHandshakeResponse(stored)
                       ELSE read_TrackerAnnounceResponse(stored)
             IN  CASE br.kind = "eof" ->
                        /\ recv_bytes' = stored
                        /\ received' = received + n
                        /\ UNCHANGED << tpc, net, tresult >>
                   [] br.kind = "err" ->
                        /\ Return(Err("ReceivingUdpBytes", << "InvalidData" >>))
                        /\ UNCHANGED << net, recv_bytes, received >>
                   [] OTHER ->
                        IF tpc = "connect" THEN connected(br.value) ELSE announced(br.value)
    /\ UNCHANGED << codec_vars, meta_vars, call_vars, scheme, route, transaction_id,
                    answer >>

NextTracker ==
    \/ Announce
    \/ HttpAnswer
    \/ \E d \in Datagrams : TrackerSends(d)
    \/ UdpRecv

SpecTracker == InitTracker /\ [][NextTracker]_vars

----------------------------------------------------------------------------
(* C17 .. C20: the announce call *)

\* the big-endian 32-bit field at offset off of a datagram
WireI32(d, off) ==
    ((d[off + 1] * 256 + d[off + 2]) * 256 + d[off + 3]) * 256 + d[off + 4]

\* a complete connect response: action, transaction id, connection id
IsConnectResponse(d) == Len(d) = 16

\* a complete announce response: action 1, four counters, 6 bytes per peer
IsAnnounceResponse(d) ==
    /\ Len(d) >= 20
    /\ WireI32(d, 0) = 1
    /\ Len(d) = 20 + 6 * (WireI32(d, 12) + WireI32(d, 16))

\* the announce request, among the operations recorded
IsAnnounceRequest(o) == o.op = "send" /\ o.data.action = 1

\* C17: Tracker::announce goes by the scheme of the announce url alone: http
\* and https run the HTTP announce, udp runs the UDP announce, and every
\* other scheme returns UnknownTrackerScheme with that scheme at once,
\* without binding a socket, sending a datagram or making an HTTP request.
C17_Dispatch ==
    tpc # "idle"
        => /\ scheme \in {"http", "https"}
                => /\ route = "http"
                   /\ \A i \in DOMAIN net : net[i].op = "http_get"
           /\ scheme = "udp"
                => /\ route = "udp"
                   /\ \A i \in DOMAIN net : net[i].op \in {"bind", "connect", "send"}
           /\ scheme \notin {"http", "https", "udp"}
                => /\ route = "none"
                   /\ tpc = "done"
                   /\ tresult = Err("UnknownTrackerScheme", << scheme >>)
                   /\ net = << >>

\* the announce to a ws:// url has returned, and nothing went over the network
C17_Witness ==
    /\ scheme = "ws"
    /\ tpc = "done"
    /\ tresult.err = "UnknownTrackerScheme"
    /\ net = << >>

\* C18: when the connect response carries another transaction id than the
\* one sent, announce_udp fails with ReceivedIncorrectTransactionId and
\* sends no announce request; an announce request is sent only after a
\* connect response with the matching transaction id, and it carries that
\* response's connection id.
C18_ConnectExchange ==
    /\ ( /\ taken # << >>
         /\ IsConnectResponse(taken[1].dgram)
         /\ WireI32(taken[1].dgram, 4) # transaction_id )
            => /\ tresult = Err("ReceivedIncorrectTransactionId",
                                << WireI32(taken[1].dgram, 4), transaction_id >>)
               /\ \A i \in DOMAIN net : ~ IsAnnounceRequest(net[i])
    /\ \A i \in DOMAIN net :
          IsAnnounceRequest(net[i])
            => \E j \in DOMAIN taken :
                  /\ IsConnectResponse(taken[j].dgram)
                  /\ WireI32(taken[j].dgram, 4) = transaction_id
                  /\ net[i].data.connection_id = SubSeq(taken[j].dgram, 9, 16)

\* C19: an announce response whose transaction id is not the request's is
\* rejected with the transaction-mismatch error, not an io error, and no
\* TrackerResponse is returned, however well-formed the response is.
C19_AnnounceMismatch ==
    ( /\ taken # << >>
      /\ IsAnnounceResponse(Last(taken).dgram)
      /\ WireI32(Last(taken).dgram, 4) # transaction_id )
        => tresult = Err("ReceivedIncorrectTransactionId",
                         << WireI32(Last(taken).dgram, 4), transaction_id >>)

\* C20: recv_all returns the parsed response once the tracker has delivered
\* a complete well-formed datagram, instead of failing or waiting on; and a
\* short read by itself is retried, it produces no error.
C20_RecvAll ==
    /\ (Len(taken) = 1 /\ IsConnectResponse(taken[1].dgram))
            => /\ tpc # "connect"
               /\ tresult.err # "ReceivingUdpBytes"
    /\ (taken # << >> /\ \A j \in DOMAIN taken : Len(taken[j].dgram) < 16)
            => tresult.kind # "err"

----------------------------------------------------------------------------
(* Helper functions of the tracker client and of util.rs, applied to       *)
(* arguments drawn from bounded sets                                       *)

MaxPeers == 2

\* n bytes that differ from place to place
Pattern(n, seed) == [i \in 1 .. n |-> (seed + 37 * i) % 256]

\* the function is applied and its result kept
Apply(f, result) ==
    /\ call_fn = f
    /\ call_ret = << >>
    /\ call_ret' = << result >>
    /\ UNCHANGED << codec_vars, meta_vars, tracker_vars, call_fn, call_arg >>

\* the function has been applied
Applied(f) == call_fn = f /\ call_ret # << >>

\* the idle parts of the state and the call that is to be made
InitCall(f, args) ==
    /\ NoCodec
    /\ NoMetainfo
    /\ NoAnnounce
    /\ call_fn = f
    /\ call_arg \in args
    /\ call_ret = << >>

----------------------------------------------------------------------------
(* The compact peer list of an HTTP tracker response (tracker.rs) *)

BinaryPeer(addr, port) == [addr |-> addr, port |-> port]

u16_from_le_bytes(b) == b[2] * 256 + b[1]
u16_from_be_bytes(b) == b[1] * 256 + b[2]

\* BinaryPeersBytesVisitor::visit_bytes
binary_peer_vec(v) ==
    IF Len(v) % 6 # 0
    THEN De_Err("byte length not a multiple of 6")
    ELSE De_Ok([j \in 1 .. Len(chunks(v, 6)) |->
                  BinaryPeer(SubSeq(chunks(v, 6)[j], 1, 4),
                             u16_from_be_bytes(SubSeq(chunks(v, 6)[j], 5, 6)))])

\* compact peer strings of up to MaxPeers entries, whole or with stray bytes
PeerStrings == { Pattern(n, seed) : n \in 0 .. 6 * MaxPeers + 5, seed \in {0, 101} }

DecodePeers == Apply("binary_peer_vec", binary_peer_vec(call_arg))

\* C21: a compact peers string of 6 * k bytes decodes to exactly k (ipv4,
\* port) pairs in source order, each from 4 address bytes and a big-endian
\* 2-byte port (12 bytes give 2 pairs); a length that is not a multiple of 6
\* (7, say) is rejected with a format error.
C21_CompactPeers ==
    Applied("binary_peer_vec")
        => LET v == call_arg
               r == call_ret[1]
           IN  IF Len(v) % 6 # 0
               THEN r.kind = "err"
               ELSE /\ r.kind = "ok"
                    /\ Len(r.value) = Len(v) \div 6
                    /\ \A j \in 1 .. Len(v) \div 6 :
                          /\ r.value[j].addr = << v[6 * j - 5], v[6 * j - 4],
                                                  v[6 * j - 3], v[6 * j - 2] >>
                          /\ r.value[j].port = 256 * v[6 * j - 1] + v[6 * j]

\* 12 bytes have been decoded into two peers
C21_Witness ==
    /\ Applied("binary_peer_vec")
    /\ Len(call_arg) = 12
    /\ call_ret[1].kind = "ok"
    /\ Len(call_ret[1].value) = 2
    /\ call_ret[1].value[2].port = 256 * call_arg[11] + call_arg[12]

----------------------------------------------------------------------------
(* url_encode_bytes (tracker.rs); a String is the sequence of its character *)
(* codes                                                                   *)

MaxContent == 3

\* the first arm of the match: '0'..='9' | 'a'..='z' | 'A'..='Z' | '.' | '-' | '_' | '~'
passes(c) ==
    \/ c \in 48 .. 57
    \/ c \in 97 .. 122
    \/ c \in 65 .. 90
    \/ c \in {46, 45, 95, 126}

\* one digit of {:02X}
hex_digit_lower(d) == IF d < 10 THEN 48 + d ELSE 87 + d
hex_digit(d) == IF d < 10 THEN 48 + d ELSE 55 + d

\* format!("%{:02X}", byte)
percent(byte) == << 37, hex_digit(byte \div 16), hex_digit(byte % 16) >>

RECURSIVE url_encode_bytes(_)
url_encode_bytes(content) ==
    IF content = << >> THEN << >>
    ELSE ( IF passes(Head(content)) THEN << Head(content) >>
           ELSE IF Head(content) = 32 THEN << 43 >>
           ELSE percent(Head(content)) )
         \o url_encode_bytes(Tail(content))

\* the bytes and the encoding of tests::test_byte_encode
TestBytes ==
    << 18, 52, 86, 120, 154, 188, 222, 241, 35, 69,
       103, 137, 171, 205, 239, 18, 52, 86, 120, 154 >>
TestEncoded ==
    << 37, 49, 50,  52,  86,  120,  37, 57, 65,  37, 66, 67,  37, 68, 69,
       37, 70, 49,  37, 50, 51,  69,  103,  37, 56, 57,  37, 65, 66,
       37, 67, 68,  37, 69, 70,  37, 49, 50,  52,  86,  120,  37, 57, 65 >>

\* every single byte, short strings, and the string of the test
Contents ==
    { << b >> : b \in 0 .. 255 }
        \cup { Pattern(n, seed) : n \in 0 .. MaxContent, seed \in {0, 9, 101} }
        \cup { << 32, b, 32 >> : b \in {65, 126, 127, 128, 255} }
        \cup { TestBytes }

UrlEncode == Apply("url_encode_bytes", url_encode_bytes(call_arg))

\* "0123456789ABCDEF"
HexChars == << 48, 49, 50, 51, 52, 53, 54, 55, 56, 57, 65, 66, 67, 68, 69, 70 >>

\* "0123456789ABCDEFGHIJKLMNOPQRSTUVWXYZabcdefghijklmnopqrstuvwxyz.-_~"
UnreservedChars ==
    { 48, 49, 50, 51, 52, 53, 54, 55, 56, 57,
      65, 66, 67, 68, 69, 70, 71, 72, 73, 74, 75, 76, 77,
      78, 79, 80, 81, 82, 83, 84, 85, 86, 87, 88, 89, 90,
      97, 98, 99, 100, 101, 102, 103, 104, 105, 106, 107, 108, 109,
      110, 111, 112, 113, 114, 115, 116, 117, 118, 119, 120, 121, 122,
      46, 45, 95, 126 }

\* what the percent-encoding rule makes of a byte string
RECURSIVE PercentEncoded(_)
PercentEncoded(b) ==
    IF b = << >> THEN << >>
    ELSE ( CASE Head(b) \in UnreservedChars -> << Head(b) >>
             [] Head(b) = 32 -> << 43 >>
             [] OTHER -> << 37, HexChars[(Head(b) \div 16) + 1], HexChars[(Head(b) % 16) + 1] >> )
         \o PercentEncoded(Tail(b))

\* C22: url_encode_bytes follows the raw-byte percent-encoding rule on every
\* byte string: a byte passes unescaped iff it is one of 0-9 A-Z a-z . - _ ~,
\* a space becomes +, every other byte (0x80 and above included) becomes %XX
\* with two uppercase hex digits, the bytes taken in order.
C22_UrlEncode ==
    Applied("url_encode_bytes")
        => /\ call_ret[1] = PercentEncoded(call_arg)
           /\ call_arg = TestBytes => call_ret[1] = TestEncoded

\* the 20 bytes of the test, bytes above 0x7f among them, have been encoded
C22_Witness ==
    /\ Applied("url_encode_bytes")
    /\ call_arg = TestBytes
    /\ call_arg[5] = 154
    /\ SubSeq(call_ret[1], 7, 9) = << 37, 57, 65 >>

----------------------------------------------------------------------------
(* C23: the failure dictionary of an HTTP tracker *)

\* C23: when the decoded body of the HTTP tracker is a failure dictionary
\* {failure reason: bytes}, announce_http returns TrackerReturnedError with
\* the UTF-8 decoded reason and no TrackerResponse, whatever bytes the
\* tracker sent as the reason.
C23_TrackerFailure ==
    (answer # << >> /\ answer[1] = "failure")
        => tresult = Err("TrackerReturnedError", << answer[2] >>)

----------------------------------------------------------------------------
(* C24, C28, C29: the codecs as a whole *)

\* C24: the peer codec keeps no session state of its own: a new PeerCodec
\* has am_choking = true, am_interested = false, peer_choking = true,
\* peer_interested = false, and no decode or encode call, those of Choke,
\* Unchoke, Interested and NotInterested included, changes any of the four.
C24_FlagsUntouched ==
    /\ am_choking = TRUE
    /\ am_interested = FALSE
    /\ peer_choking = TRUE
    /\ peer_interested = FALSE

\* an Unchoke has been decoded and encoded again
C24_Witness ==
    /\ op = "echo"
    /\ decoded = << Unchoke >>
    /\ item = << Unchoke >>
    /\ am_choking = TRUE
    /\ peer_choking = TRUE

\* C28: PeerCodec::decode is total: whatever the buffer holds (1 to 3 bytes,
\* or a fully buffered Piece frame declaring less than 9 bytes) a call ends
\* with a message, with need-more-data or with a PeerError; it never panics
\* and never reads past the buffered bytes.
C28_DecodeTotal ==
    AfterDecode
        => /\ res.kind \in {"msg", "none", "err"}
           /\ Len(src) <= Len(before)

\* C29: a handshake decode that succeeds takes exactly the 68 handshake bytes
\* from the buffer, so that the peer frames that follow in the same buffer
\* are decoded from offset 68 on.
C29_HandshakeConsumed ==
    (op = "decode" /\ WellFormedHandshake(before))
        => /\ res.kind = "msg"
           /\ src = SubSeq(before, 69, Len(before))

----------------------------------------------------------------------------
(* The announce response of a udp tracker, read and normalized (udp.rs) *)

MaxSwarm == 2

\* the wire entry of peer k: an address below 128.0.0.0 and a port
PeerEntry(k, seed) ==
    << (seed + k) % 128, (seed + 3 * k) % 256, (7 * k) % 256, k,
       (seed + 26 * k) % 256, (225 * k) % 256 >>

RECURSIVE PeerEntries(_, _)
PeerEntries(n, seed) ==
    IF n = 0 THEN << >> ELSE PeerEntries(n - 1, seed) \o PeerEntry(n, seed)

\* complete announce responses with leechers + seeders peer entries
AnnounceDatagrams ==
    { be32(1) \o be32(t) \o be32(interval) \o be32(l) \o be32(s)
        \o PeerEntries(l + s, seed) :
        t \in TransactionIds, interval \in {0, 1800},
        l \in 0 .. MaxSwarm, s \in 0 .. MaxSwarm, seed \in {10, 200} }

\* recv_all::<TrackerAnnounceResponse> on the bytes of one datagram, then into()
announce_response(b) ==
    IF read_TrackerAnnounceResponse(b).kind = "ok"
    THEN Read_Ok(TrackerResponse_from(read_TrackerAnnounceResponse(b).value))
    ELSE read_TrackerAnnounceResponse(b)

Normalize == Apply("announce_response", announce_response(call_arg))

\* C25: a udp announce response that was received is normalized into a
\* TrackerResponse with complete = 0, incomplete = seeders, interval = the
\* response's interval, and a compact-binary peer list of exactly leechers +
\* seeders entries in wire order, each with the address made of the four
\* bytes of its ip field as they stand on the wire and with its port.
C25_Normalize ==
    (Applied("announce_response") /\ IsAnnounceResponse(call_arg))
        => LET d == call_arg
               r == call_ret[1]
               n == WireI32(d, 12) + WireI32(d, 16)
           IN  /\ r.kind = "ok"
               /\ r.value.complete = 0
               /\ r.value.incomplete = WireI32(d, 16)
               /\ r.value.interval = WireI32(d, 8)
               /\ r.value.peers.variant = "Binary"
               /\ Len(r.value.peers.list) = n
               /\ \A i \in 1 .. n :
                    /\ r.value.peers.list[i].addr = SubSeq(d, 6 * i + 15, 6 * i + 18)
                    /\ r.value.peers.list[i].port = 256 * d[6 * i + 19] + d[6 * i + 20]

\* a response with one leecher and two seeders has been normalized
C25_Witness ==
    /\ Applied("announce_response")
    /\ IsAnnounceResponse(call_arg)
    /\ WireI32(call_arg, 12) = 1
    /\ WireI32(call_arg, 16) = 2
    /\ Len(call_ret[1].value.peers.list) = 3
    /\ call_ret[1].value.incomplete = 2

----------------------------------------------------------------------------
(* The announce request of announce_udp as bytes (udp.rs, send_all_udp) *)

\* the connection id, the transaction id and the key of the request, and
\* the byte order of the machine the client runs on
RequestInputs ==
    [connection_id : ConnectionIds, transaction_id : TransactionIds,
     random : Randoms, key : Keys, native : {"little", "big"}]

WriteRequest ==
    Apply("TrackerAnnounceRequest_write",
          TrackerAnnounceRequest_write(
              TrackerAnnounceRequest_new(call_arg.connection_id, call_arg.transaction_id,
                                         AnnouncedInfo, call_arg.random, call_arg.key),
              call_arg.native))

\* a 64-bit field holding a number below 2^31, big-endian
be64(v) == << 0, 0, 0, 0 >> \o be32(v)

\* C26: the announce request of announce_udp is exactly 98 bytes, every
\* integer big-endian, in the order connection_id, action = 1,
\* transaction_id, info_hash, peer_id, downloaded = 0, left = total_bytes,
\* uploaded = 0, event, ip = 0, key, num_want = -1, port, extensions = 0.
C26_AnnounceRequest ==
    Applied("TrackerAnnounceRequest_write")
        => LET out == call_ret[1]
           IN  /\ Len(out) = 98
               /\ SubSeq(out, 1, 8) = call_arg.connection_id
               /\ SubSeq(out, 9, 12) = be32(1)
               /\ SubSeq(out, 13, 16) = be32(call_arg.transaction_id)
               /\ SubSeq(out, 17, 36) = hash_array(info_hash(AnnouncedInfo))
               /\ SubSeq(out, 37, 56) = << 45, 84, 65, 48, 48, 48, 48, 48, 45 >>
                                            \o call_arg.random
               /\ SubSeq(out, 57, 64) = be64(0)
               /\ SubSeq(out, 65, 72) = be64(total_bytes(AnnouncedInfo))
               /\ SubSeq(out, 73, 80) = be64(0)
               /\ SubSeq(out, 81, 84) = be32(Event_Started)
               /\ SubSeq(out, 85, 88) = be32(0)
               /\ SubSeq(out, 89, 92) = be32(call_arg.key)
               /\ SubSeq(out, 93, 96) = << 255, 255, 255, 255 >>
               /\ SubSeq(out, 97, 98) = << AnnouncePort \div 256, AnnouncePort % 256 >>

----------------------------------------------------------------------------
(* read_exact_arr on its two readers (util.rs) *)

MaxUnread == 5
MaxN == 3

Option_Some(v) == [some |-> TRUE, value |-> v]
Option_None == [some |-> FALSE, value |-> << >>]

\* ReadExactExt for BytesMut: the returned option and the bytes left unread
BytesMut_read_exact_arr(b, n) ==
    [ret |-> IF read_exact_some(b, n) THEN Option_Some(read_exact_arr(b, n))
                                   ELSE Option_None,
     unread |-> b]

\* ReadExactExt for Cursor: Read::read_exact fills the array and moves the
\* position past it; on a short reader it fails and the position is left
\* where it was or at the end, either of which at_end chooses
Cursor_read_exact_arr(b, n, at_end) ==
    IF Len(b) >= n
    THEN [ret |-> Option_Some(prefix(b, n)), unread |-> advance(b, n)]
    ELSE [ret |-> Option_None, unread |-> IF at_end THEN << >> ELSE b]

ReadExactExt_read_exact_arr(impl, b, n, at_end) ==
    IF impl = "BytesMut" THEN BytesMut_read_exact_arr(b, n)
                         ELSE Cursor_read_exact_arr(b, n, at_end)

\* a reader of either kind over some unread bytes, and the N of the calls
Readers ==
    [impl : {"BytesMut", "Cursor"},
     unread : { Pattern(k, 3) : k \in 0 .. MaxUnread },
     n : 0 .. MaxN]

\* two calls of read_exact_arr::<N> in a row on the same reader
ReadTwice ==
    \E at_end \in BOOLEAN :
        LET first == ReadExactExt_read_exact_arr(call_arg.impl, call_arg.unread,
                                                 call_arg.n, at_end)
            second == ReadExactExt_read_exact_arr(call_arg.impl, first.unread,
                                                  call_arg.n, at_end)
        IN  Apply("read_exact_arr", [first |-> first, second |-> second])

\* C27: on both readers read_exact_arr::<N> returns the next N unread bytes
\* and moves the read position past them when at least N are unread, so
\* that two calls in a row return consecutive ranges that do not overlap,
\* and returns None when fewer than N are unread.
C27_ReadExactArr ==
    Applied("read_exact_arr")
        => LET b == call_arg.unread
               n == call_arg.n
               r == call_ret[1]
           IN  /\ r.first.ret = IF Len(b) >= n THEN Option_Some(SubSeq(b, 1, n))
                                               ELSE Option_None
               /\ Len(b) >= n => r.first.unread = SubSeq(b, n + 1, Len(b))
               /\ r.second.ret = IF Len(b) >= 2 * n
                                 THEN Option_Some(SubSeq(b, n + 1, 2 * n))
                                 ELSE Option_None

----------------------------------------------------------------------------
(* The functions applied to their inputs *)

InitCalls ==
    \/ InitCall("binary_peer_vec", PeerStrings)
    \/ InitCall("url_encode_bytes", Contents)
    \/ InitCall("announce_response", AnnounceDatagrams)
    \/ InitCall("TrackerAnnounceRequest_write", RequestInputs)
    \/ InitCall("read_exact_arr", Readers)

NextCalls ==
    \/ DecodePeers
    \/ UrlEncode
    \/ Normalize
    \/ WriteRequest
    \/ ReadTwice

SpecCalls == InitCalls /\ [][NextCalls]_vars

====
